---- MODULE Spec2Model ----
(***************************************************************************)
(* Model of go-controller/pkg/ovn/controller/unidling/unidle.go:           *)
(*   - idleStatusController: the idle-status state machine driven by the   *)
(*     Service informer and by the grace-period delaying work queue        *)
(*     (specification Spec; with one Service and runs one change longer,   *)
(*     SpecCycle, and SpecDup where an update notification may be          *)
(*     delivered twice);                                                   *)
(*   - unidlingController: the VIP registry kept by the Service handlers   *)
(*     (specification SpecRegistry; SpecConc with callbacks that overlap)  *)
(*     and the empty-lb-backends event bridge (specification SpecBridge);  *)
(*   - the Run loops of both and the stop channel (specification SpecStop).*)
(***************************************************************************)
EXTENDS Integers, Sequences, FiniteSets, TLC

(***************************************************************************)
(* Bounds of the model.                                                    *)
(***************************************************************************)
\* number of changes the outside world makes to Services (Spec)
MaxEnvOps == 2
\* number of Service notifications delivered to the unidlingController
MaxSvcOps == 3
\* number of ControllerEvent rows the southbound database ever holds
MaxEvents == 1
\* number of changes the outside world makes to the one Service of SpecDup
\* and SpecCycle
MaxDupOps == 3

(***************************************************************************)
(* Program constants.                                                      *)
(***************************************************************************)
StatusIdle == "Idle"
StatusGracePeriod == "GracePeriod"
StatusNotIdle == "NotIdle"
\* seconds
GracePeriodDuration == 30

\* the StatusAnnotation key is not set on the object
NoStatus == "absent"
Statuses == {NoStatus, StatusIdle, StatusGracePeriod, StatusNotIdle}

\* Services, by (namespace, name)
Services == {[namespace |-> "ns", name |-> "a"], [namespace |-> "ns", name |-> "b"]}
\* no Service (a nil *kapi.Service, a NotFound from the lister)
NoSvc == [present |-> FALSE, idledAt |-> FALSE, status |-> NoStatus]
NoName == [namespace |-> "", name |-> ""]
NoTimer == -1
NoWrite == "none"

\* cache.MetaNamespaceKeyFunc: "<namespace>/<name>"
MetaNamespaceKeyFunc(svc) == <<svc.namespace, "/", svc.name>>
\* cache.SplitMetaNamespaceKey
SplitMetaNamespaceKey(key) == [namespace |-> key[1], name |-> key[3]]
Keys == {MetaNamespaceKeyFunc(s) : s \in Services}

\* the values the gracePeriod parameter of NewIdleStatusController takes here
GracePeriods == {GracePeriodDuration, 2 * GracePeriodDuration}

VARIABLES
    \* ---- the cluster, as the idleStatusController sees it ----
    api,          \* API server: Service -> NoSvc or its annotations
    watchQ,       \* watch events the informer has not applied yet
    cache,        \* the informer's store, read through serviceLister
    notifQ,       \* notifications the informer has queued for the handlers
    \* ---- idleStatusController ----
    gracePeriod,  \* isc.gracePeriod
    waiting,      \* delaying queue: key -> delay it waits for, or NoTimer
    timers,       \* delaying queue: key -> number of entries in its heap
    queue,        \* work queue: keys ready for Get, in order
    dirty,        \* work queue: keys added and not yet taken
    processing,   \* work queue: keys taken by Get and not marked Done
    worker,       \* isc.worker: "running" its loop, or "exited"
    envOps,       \* number of outside changes so far
    dup,          \* the update notification kept for a second delivery
    \* ---- what the last handler invocation did ----
    last,
    \* ---- the cluster and the southbound database, as the
    \*      unidlingController sees them ----
    view,             \* Services the informer has notified, with their spec
    sbStore,          \* ControllerEvent rows in the southbound database
    liveQ,            \* rows whose cache AddFunc waits to send on eventQueue
    listQ,            \* rows of the startup List still to be sent on eventQueue
    \* ---- unidlingController ----
    phase,            \* progress of NewController
    serviceVIPToName, \* uc.serviceVIPToName
    ucWaiting,        \* keys given to uc.gracePeriodQueue.AddAfter
    recorded,         \* events given to uc.eventRecorder, in order
    svcOps,           \* number of Service notifications so far
    nEvents,          \* number of ControllerEvent rows created so far
    ucLast,           \* what the last unidlingController step did
    calls,            \* Service callbacks that have started and not returned
    \* ---- shutdown ----
    stopCh,           \* the stop channel given to both Run: "open" or "closed"
    iscRun            \* isc.Run: in its "loop" (wait.Until), or "returned"

ucVars == <<view, sbStore, liveQ, listQ, phase, serviceVIPToName, ucWaiting,
            recorded, svcOps, nEvents, ucLast, calls>>

iscVars == <<api, watchQ, cache, notifQ, gracePeriod, waiting, timers, queue, dirty,
             processing, worker, envOps, dup>>
runVars == <<stopCh, iscRun>>
vars == <<iscVars, last, ucVars, runVars>>

\* a Service object of this world: its annotations, reduced to what the
\* controller reads: idledAt = some annotation key ends in "idled-at",
\* status = value of k8s.ovn.org/idle-status (a nil annotation map reads
\* as idledAt = FALSE, status = NoStatus everywhere it is read)
Objects == [present : {TRUE}, idledAt : BOOLEAN, status : Statuses]

\* what a handler invocation observed and did: op (add, update, expiry),
\* the Service, the idled-at marker of the old and the new object, the
\* status annotation of the object acted on, whether the lister found the
\* Service, the value passed to SetAnnotationsOnService (or NoWrite), whether
\* that call succeeded, the delay passed to AddAfter (or NoTimer), and
\* whether an error went to utilruntime.HandleError; again tells that
\* AddAfter was called for a key that was waiting already
Call(op, s, old, new, status, found, wrote, ok, sched, err) ==
    [op |-> op, svc |-> s, old |-> old, new |-> new, status |-> status,
     found |-> found, wrote |-> wrote, ok |-> ok, sched |-> sched, err |-> err,
     again |-> FALSE]

NoCall == Call("none", NoName, FALSE, FALSE, NoStatus, FALSE, NoWrite, FALSE, NoTimer, FALSE)

\* hasIdleAt
hasIdleAt(svc) ==
    IF svc = NoSvc THEN FALSE ELSE svc.idledAt

\* GetIdleStatus
GetIdleStatus(svc) ==
    IF svc.status = NoStatus THEN StatusNotIdle ELSE svc.status

(***************************************************************************)
(* kube.SetAnnotationsOnService(namespace, name, {StatusAnnotation: v}):   *)
(* patches the annotation on the API server's object.  It fails when the   *)
(* Service is gone.  A patch that changes the object produces a watch      *)
(* event.                                                                  *)
(***************************************************************************)
SetOk(s) == api[s] # NoSvc

ApiAfterSet(s, v) ==
    IF SetOk(s) THEN [api EXCEPT ![s].status = v] ELSE api

WatchAfterSet(s, v) ==
    IF SetOk(s) /\ api[s].status # v
    THEN Append(watchQ, [type |-> "MODIFIED", svc |-> s,
                         obj |-> [api[s] EXCEPT !.status = v]])
    ELSE watchQ

(***************************************************************************)
(* workqueue (client-go), as used through isc.gracePeriodQueue             *)
(***************************************************************************)
\* delaying queue AddAfter(key, d), for a positive d: a key that already
\* waits keeps the earlier of the two times
WaitingAfterAddAfter(key, d) ==
    IF waiting[key] = NoTimer THEN [waiting EXCEPT ![key] = d]
    ELSE IF waiting[key] > d THEN [waiting EXCEPT ![key] = d]
    ELSE waiting

\* mutant: every AddAfter pushes an entry of its own
TimersAfterAddAfter_NoDedup(key) == [timers EXCEPT ![key] = @ + 1]

\* delaying queue AddAfter(key, d): an entry is pushed on the heap only for
\* a key that is not waiting yet
TimersAfterAddAfter(key) ==
    IF waiting[key] = NoTimer THEN [timers EXCEPT ![key] = @ + 1] ELSE timers

\* Add(key) of the work queue: a key already dirty is dropped; a key being
\* processed is only marked dirty (it is queued again by Done)
DirtyAfterAdd(key) == dirty \cup {key}

QueueAfterAdd(key) ==
    IF key \in dirty \/ key \in processing THEN queue ELSE Append(queue, key)

(***************************************************************************)
(* Decisions of the idle-status state machine: the annotation value to     *)
(* write (NoWrite for none) and whether AddAfter follows a successful      *)
(* write.                                                                  *)
(***************************************************************************)
Decision(w, sch) == [write |-> w, schedule |-> sch, err |-> FALSE]
Nothing == Decision(NoWrite, FALSE)
\* an error returned before any write
Failed == [write |-> NoWrite, schedule |-> FALSE, err |-> TRUE]

\* mutant: the annotation is written but AddAfter is forgotten
markServiceAsGracePeriod_NoTimer(svc) == Decision(StatusGracePeriod, FALSE)

\* markServiceAsGracePeriod
markServiceAsGracePeriod(svc) == Decision(StatusGracePeriod, TRUE)

\* mutant: the "already Idle" test is dropped
markServiceAsIdleIfNeeded_Always(svc) == Decision(StatusIdle, FALSE)

\* markServiceAsIdleIfNeeded
markServiceAsIdleIfNeeded(svc) ==
    IF svc.status = StatusIdle THEN Nothing ELSE Decision(StatusIdle, FALSE)

\* mutant: every stored status counts as already settled
markServiceAsNotIdle_Never(svc) == Nothing

\* mutant: the test for a Service that is Idle again is dropped
markServiceAsNotIdle_IdleToo(svc) ==
    IF svc.status = NoStatus \/ svc.status = StatusNotIdle THEN Nothing
    ELSE Decision(StatusNotIdle, FALSE)

\* markServiceAsNotIdle
markServiceAsNotIdle(svc) ==
    IF svc.status = NoStatus \/ svc.status = StatusNotIdle THEN Nothing
    ELSE IF svc.status = StatusIdle THEN Nothing
    ELSE Decision(StatusNotIdle, FALSE)

\* mutant: the early return for a Service that is not idled is dropped
onServiceAdd_NoMarkerTest(svc) == markServiceAsIdleIfNeeded(svc)

\* idleStatusController.onServiceAdd
onServiceAdd(svc) ==
    IF ~hasIdleAt(svc) THEN Nothing ELSE markServiceAsIdleIfNeeded(svc)

\* idleStatusController.onServiceUpdate
onServiceUpdate(oldSvc, newSvc) ==
    IF hasIdleAt(oldSvc) /\ ~hasIdleAt(newSvc) THEN markServiceAsGracePeriod(newSvc)
    ELSE IF hasIdleAt(newSvc) THEN markServiceAsIdleIfNeeded(newSvc)
    ELSE Nothing

\* the effect of a decision d taken for Service s: the annotation write and,
\* when it succeeded, gracePeriodQueue.AddAfter(key, isc.gracePeriod)
Apply(s, d, op, old, new, status, found) ==
    LET writes == d.write # NoWrite
        ok     == writes /\ SetOk(s)
        sched  == ok /\ d.schedule
        key    == MetaNamespaceKeyFunc(s)
    IN  /\ api' = IF writes THEN ApiAfterSet(s, d.write) ELSE api
        /\ watchQ' = IF writes THEN WatchAfterSet(s, d.write) ELSE watchQ
        /\ waiting' = IF sched THEN WaitingAfterAddAfter(key, gracePeriod) ELSE waiting
        /\ timers' = IF sched THEN TimersAfterAddAfter(key) ELSE timers
        /\ last' = [Call(op, s, old, new, status, found, d.write, ok,
                         IF sched THEN gracePeriod ELSE NoTimer,
                         d.err \/ (writes /\ ~ok))
                        EXCEPT !.again = sched /\ waiting[key] # NoTimer]

(***************************************************************************)
(* unidlingController: the Services it is notified of                      *)
(***************************************************************************)
ProtocolTCP == "TCP"
ProtocolUDP == "UDP"
ProtocolSCTP == "SCTP"

\* cluster addresses; "" and "None" are the two unset values of
\* Spec.ClusterIP
IPs == {"10.0.0.5", "10.0.0.6"}
ClusterIPs == IPs \cup {"", "None"}
\* Spec.Ports entries: <<Port, Protocol>>
SvcPorts == {<<80, ProtocolTCP>>, <<80, ProtocolUDP>>}

\* a Service as the unidlingController reads it
UcObjects ==
    {o \in [present : {TRUE}, type : {"ClusterIP", "ExternalName"},
            clusterIP : ClusterIPs, ports : SUBSET SvcPorts] :
        o.type = "ExternalName" => o.clusterIP = ""}
NoUcSvc == [present |-> FALSE, type |-> "ClusterIP", clusterIP |-> "", ports |-> {}]

\* the annotations of a notified Service, as alignIdleStatusAnnotation reads
\* them
Annotations == [idledAt : BOOLEAN, status : Statuses]

\* util.ServiceTypeHasClusterIP
ServiceTypeHasClusterIP(svc) == svc.type # "ExternalName"
\* util.IsClusterIPSet
IsClusterIPSet(svc) == svc.clusterIP # "" /\ svc.clusterIP # "None"
\* util.GetClusterIPs (single-stack Services)
GetClusterIPs(svc) == {svc.clusterIP}
\* util.JoinHostPortInt32: "<ip>:<port>"
JoinHostPortInt32(ip, port) == <<ip, ":", port>>

\* ServiceVIPKey
ServiceVIPKey(vip, protocol) == [vip |-> vip, protocol |-> protocol]
VIPs == {JoinHostPortInt32(ip, 80) : ip \in IPs}
ServiceVIPKeys == {ServiceVIPKey(v, pr) : v \in VIPs, pr \in {ProtocolTCP, ProtocolUDP, ProtocolSCTP}}

\* the (vip, protocol) keys onServiceAdd and onServiceDelete walk through
\* for svc: every cluster IP with every port
KeysOf(svc) ==
    IF svc.present /\ ServiceTypeHasClusterIP(svc) /\ IsClusterIPSet(svc)
    THEN {ServiceVIPKey(JoinHostPortInt32(ip, sp[1]), sp[2]) :
              ip \in GetClusterIPs(svc), sp \in svc.ports}
    ELSE {}

\* AddServiceVIPToName, for each key of ks
AddServiceVIPToName(reg, ks, s) ==
    [k \in ServiceVIPKeys |-> IF k \in ks THEN s ELSE reg[k]]

\* DeleteServiceVIPToName, for each key of ks
DeleteServiceVIPToName(reg, ks) ==
    [k \in ServiceVIPKeys |-> IF k \in ks THEN NoName ELSE reg[k]]

\* GetServiceVIPToName: <<workload, found>>
GetServiceVIPToName(reg, vip, protocol) ==
    LET k == ServiceVIPKey(vip, protocol)
    IN  IF k \in ServiceVIPKeys /\ reg[k] # NoName
        THEN <<reg[k], TRUE>> ELSE <<NoName, FALSE>>

\* alignIdleStatusAnnotation: the status it leaves on the notified object
\* (in memory only: nothing is sent to the API server) and whether it calls
\* gracePeriodQueue.AddAfter
alignIdleStatusAnnotation(ann) ==
    IF ann.status = NoStatus /\ ~ann.idledAt THEN [status |-> ann.status, schedule |-> FALSE]
    ELSE IF ann.status = NoStatus /\ ann.idledAt THEN [status |-> StatusIdle, schedule |-> FALSE]
    ELSE IF ann.status = StatusIdle
         THEN IF ann.idledAt THEN [status |-> ann.status, schedule |-> FALSE]
              ELSE [status |-> StatusGracePeriod, schedule |-> TRUE]
    ELSE IF ann.idledAt THEN [status |-> StatusIdle, schedule |-> FALSE]
    ELSE [status |-> ann.status, schedule |-> FALSE]

\* the registry after uc.onServiceAdd(svc)
RegistryAfterAdd(reg, s, svc) == AddServiceVIPToName(reg, KeysOf(svc), s)

\* mutant: entries of a deleted Service are left in the registry
RegistryAfterDelete_Keep(reg, svc) == reg

\* the registry after uc.onServiceDelete(svc)
RegistryAfterDelete(reg, svc) == DeleteServiceVIPToName(reg, KeysOf(svc))

\* the registry after UpdateFunc: onServiceDelete(old), then onServiceAdd(new)
RegistryAfterUpdate(reg, s, old, new) ==
    RegistryAfterAdd(RegistryAfterDelete(reg, old), s, new)

\* the API server gives a cluster IP to one Service at a time
IPFree(s, svc) ==
    IsClusterIPSet(svc) =>
        \A o \in Services \ {s} : ~(view[o].present /\ view[o].clusterIP = svc.clusterIP)

\* a ControllerEvent row: its uuid, event_type and the vip and protocol
\* entries of event_info (NoVip, NoProto: the entry is missing)
NoVip == <<"", ":", 0>>
NoProto == "absent"
EmptyLbBackends == "empty_lb_backends"
EventTypes == {EmptyLbBackends, "other"}
EventVips == {JoinHostPortInt32("10.0.0.5", 80), NoVip}
EventProtos == {"udp", "UDP", "sctp", NoProto}
NoEvent == [uuid |-> 0, type |-> "other", vip |-> NoVip, protocol |-> NoProto]

\* what a step of the unidlingController did: op (add, update, delete,
\* event), the Service notified, the row handled, whether its delete
\* transaction succeeded, whether handleLbEmptyBackendsEvent returned an
\* error, and how many events it gave to the recorder; gone tells that the
\* row handled was not in the store any more
UcStep(op, s, ev, txOk, err, n) ==
    [op |-> op, svc |-> s, ev |-> ev, txOk |-> txOk, err |-> err, nSignals |-> n,
     gone |-> FALSE]
UcCall(op, s) == UcStep(op, s, NoEvent, FALSE, FALSE, 0)
NoUcCall == UcCall("none", NoName)

\* what stays of alignIdleStatusAnnotation(svc) at the end of onServiceAdd
AfterAlign(s, ann) ==
    ucWaiting' = IF alignIdleStatusAnnotation(ann).schedule
                 THEN ucWaiting \cup {MetaNamespaceKeyFunc(s)} ELSE ucWaiting

\* AddFunc
UcOnServiceAdd(s, svc, ann) ==
    /\ phase = "running"
    /\ svcOps < MaxSvcOps
    /\ ~view[s].present
    /\ IPFree(s, svc)
    /\ serviceVIPToName' = RegistryAfterAdd(serviceVIPToName, s, svc)
    /\ AfterAlign(s, ann)
    /\ view' = [view EXCEPT ![s] = svc]
    /\ svcOps' = svcOps + 1
    /\ ucLast' = UcCall("add", s)
    /\ UNCHANGED <<sbStore, liveQ, listQ, phase, recorded, nEvents>>
    /\ UNCHANGED <<iscVars, last, calls, runVars>>

\* UpdateFunc
UcOnServiceUpdate(s, svc, ann) ==
    /\ phase = "running"
    /\ svcOps < MaxSvcOps
    /\ view[s].present
    /\ IPFree(s, svc)
    /\ serviceVIPToName' = RegistryAfterUpdate(serviceVIPToName, s, view[s], svc)
    /\ AfterAlign(s, ann)
    /\ view' = [view EXCEPT ![s] = svc]
    /\ svcOps' = svcOps + 1
    /\ ucLast' = UcCall("update", s)
    /\ UNCHANGED <<sbStore, liveQ, listQ, phase, recorded, nEvents>>
    /\ UNCHANGED <<iscVars, last, calls, runVars>>

\* DeleteFunc: the object is the Service, or a tombstone that holds it
UcOnServiceDelete(s) ==
    /\ phase = "running"
    /\ svcOps < MaxSvcOps
    /\ view[s].present
    /\ serviceVIPToName' = RegistryAfterDelete(serviceVIPToName, view[s])
    /\ view' = [view EXCEPT ![s] = NoUcSvc]
    /\ svcOps' = svcOps + 1
    /\ ucLast' = UcCall("delete", s)
    /\ UNCHANGED <<sbStore, liveQ, listQ, phase, ucWaiting, recorded, nEvents>>
    /\ UNCHANGED <<iscVars, last, calls, runVars>>

(***************************************************************************)
(* unidlingController: the empty-lb-backends event bridge                  *)
(***************************************************************************)
\* the kapi.Protocol handleLbEmptyBackendsEvent looks up for
\* event.EventInfo["protocol"] (the empty string when the entry is missing)
protocolOf(proto) ==
    IF proto = "udp" THEN ProtocolUDP
    ELSE IF proto = "sctp" THEN ProtocolSCTP
    ELSE ProtocolTCP

\* the NeedPods event given to the recorder for a Service
NeedPods(ref) == [kind |-> "Service", ref |-> ref, type |-> "Normal", reason |-> "NeedPods"]

\* mutant: the registry is looked up and the event recorded before the
\* result of the delete transaction is tested
handleLbEmptyBackendsEvent_LookupFirst(event, txOk, reg) ==
    LET got == GetServiceVIPToName(reg, event.vip, protocolOf(event.protocol))
    IN  [deleted |-> txOk, err |-> ~txOk,
         signals |-> IF event.vip # NoVip /\ got[2] THEN <<NeedPods(got[1])>> ELSE <<>>]

\* mutant: the error of the delete transaction is ignored
handleLbEmptyBackendsEvent_IgnoreTxError(event, txOk, reg) ==
    LET got == GetServiceVIPToName(reg, event.vip, protocolOf(event.protocol))
    IN  [deleted |-> txOk, err |-> FALSE,
         signals |-> IF event.vip # NoVip /\ got[2] THEN <<NeedPods(got[1])>> ELSE <<>>]

\* mutant: the vip is read before the row is deleted
handleLbEmptyBackendsEvent_VipFirst(event, txOk, reg) ==
    IF event.vip = NoVip THEN [deleted |-> FALSE, err |-> FALSE, signals |-> <<>>]
    ELSE IF ~txOk THEN [deleted |-> FALSE, err |-> TRUE, signals |-> <<>>]
    ELSE LET got == GetServiceVIPToName(reg, event.vip, protocolOf(event.protocol))
         IN  [deleted |-> TRUE, err |-> FALSE,
              signals |-> IF got[2] THEN <<NeedPods(got[1])>> ELSE <<>>]

\* handleLbEmptyBackendsEvent: whether the row is deleted from the store,
\* whether an error is returned, and the events given to the recorder
handleLbEmptyBackendsEvent(event, txOk, reg) ==
    IF ~txOk THEN [deleted |-> FALSE, err |-> TRUE, signals |-> <<>>]
    ELSE IF event.vip = NoVip THEN [deleted |-> TRUE, err |-> FALSE, signals |-> <<>>]
    ELSE LET got == GetServiceVIPToName(reg, event.vip, protocolOf(event.protocol))
         IN  [deleted |-> TRUE, err |-> FALSE,
              signals |-> IF got[2] THEN <<NeedPods(got[1])>> ELSE <<>>]

\* the southbound database gets a ControllerEvent row; once the cache
\* handler is registered its AddFunc passes on the empty_lb_backends rows
SbInsert(type, vip, proto) ==
    /\ phase \in {"new", "registered", "running"}
    /\ nEvents < MaxEvents
    /\ LET row == [uuid |-> nEvents + 1, type |-> type, vip |-> vip, protocol |-> proto]
       IN  /\ sbStore' = sbStore \cup {row}
           /\ liveQ' = IF phase # "new" /\ type = EmptyLbBackends
                        THEN Append(liveQ, row) ELSE liveQ
    /\ nEvents' = nEvents + 1
    /\ ucLast' = NoUcCall
    /\ UNCHANGED <<view, listQ, phase, serviceVIPToName, ucWaiting, recorded, svcOps>>
    /\ UNCHANGED <<iscVars, last, calls, runVars>>

\* NewController: sbClient.Cache().AddEventHandler
RegisterSbHandler ==
    /\ phase = "new"
    /\ phase' = "registered"
    /\ ucLast' = NoUcCall
    /\ UNCHANGED <<view, sbStore, liveQ, listQ, serviceVIPToName, ucWaiting, recorded,
                   svcOps, nEvents>>
    /\ UNCHANGED <<iscVars, last, calls, runVars>>

\* the rows of a set, by uuid
RECURSIVE RowsInOrder(_)
RowsInOrder(rows) ==
    IF rows = {} THEN <<>>
    ELSE LET r == CHOOSE x \in rows : \A y \in rows : x.uuid <= y.uuid
         IN  <<r>> \o RowsInOrder(rows \ {r})

\* NewController: sbClient.List of the ControllerEvent rows, which are then
\* sent on eventQueue one by one, and the registration of the Service
\* handlers; a List that fails makes NewController return the error
ListEvents(ok) ==
    /\ phase = "registered"
    /\ phase' = IF ok THEN "running" ELSE "failed"
    /\ listQ' = IF ok THEN RowsInOrder(sbStore) ELSE listQ
    /\ ucLast' = NoUcCall
    /\ UNCHANGED <<view, sbStore, liveQ, serviceVIPToName, ucWaiting, recorded,
                   svcOps, nEvents>>
    /\ UNCHANGED <<iscVars, last, calls, runVars>>

\* Run: one event received from eventQueue (sent by the cache handler or by
\* the goroutine that walks the startup list) and handled.  The select's
\* gracePeriodQueue case ends in handleGracePeriodEndEvent, which stops after
\* reading the Service and changes nothing.
RunEvent(fromList, txOk) ==
    /\ phase = "running"
    /\ IF fromList THEN listQ # <<>> ELSE liveQ # <<>>
    /\ LET event == IF fromList THEN Head(listQ) ELSE Head(liveQ)
           r == handleLbEmptyBackendsEvent(event, txOk, serviceVIPToName)
       IN  /\ sbStore' = IF r.deleted THEN {x \in sbStore : x.uuid # event.uuid} ELSE sbStore
           /\ recorded' = recorded \o r.signals
           /\ ucLast' = [UcStep("event",
                                IF r.signals = <<>> THEN NoName ELSE r.signals[1].ref,
                                event, txOk, r.err, Len(r.signals))
                            EXCEPT !.gone = \A x \in sbStore : x.uuid # event.uuid]
    /\ listQ' = IF fromList THEN Tail(listQ) ELSE listQ
    /\ liveQ' = IF fromList THEN liveQ ELSE Tail(liveQ)
    /\ UNCHANGED <<view, phase, serviceVIPToName, ucWaiting, svcOps, nEvents>>
    /\ UNCHANGED <<iscVars, last, calls, runVars>>

\* the unidlingController is not part of the run
UcOff ==
    /\ view = [s \in Services |-> NoUcSvc]
    /\ sbStore = {}
    /\ liveQ = <<>>
    /\ listQ = <<>>
    /\ phase = "off"
    /\ serviceVIPToName = [k \in ServiceVIPKeys |-> NoName]
    /\ ucWaiting = {}
    /\ recorded = <<>>
    /\ svcOps = 0
    /\ nEvents = 0
    /\ ucLast = NoUcCall
    /\ calls = {}

\* no notification
NoNotif == [kind |-> "none", svc |-> NoName, old |-> NoSvc, new |-> NoSvc]

\* dup when no second delivery is considered, and when one is
DupOff == [on |-> FALSE, n |-> NoNotif, fresh |-> FALSE, before |-> NoStatus]
DupOn == [DupOff EXCEPT !.on = TRUE]

\* any step other than a handled update: the kept notification, if any, is
\* no longer the one handled last
DupStale == dup' = [dup EXCEPT !.fresh = FALSE, !.before = NoStatus]

\* how many outside changes a run is followed for: one more where a single
\* Service is looked at (SpecDup, SpecCycle)
EnvLimit == IF dup.on THEN MaxDupOps ELSE MaxEnvOps

\* the idleStatusController is not part of the run
IscOff ==
    /\ api = [s \in Services |-> NoSvc]
    /\ watchQ = <<>>
    /\ cache = [s \in Services |-> NoSvc]
    /\ notifQ = <<>>
    /\ gracePeriod = GracePeriodDuration
    /\ waiting = [k \in Keys |-> NoTimer]
    /\ timers = [k \in Keys |-> 0]
    /\ queue = <<>>
    /\ dirty = {}
    /\ processing = {}
    /\ worker = "exited"
    /\ envOps = 0
    /\ dup = DupOff
    /\ last = NoCall
    /\ stopCh = "open"
    /\ iscRun = "loop"

\* the state after NewController returned: Service handlers registered, no
\* Service notified yet
UcRunning ==
    /\ view = [s \in Services |-> NoUcSvc]
    /\ sbStore = {}
    /\ liveQ = <<>>
    /\ listQ = <<>>
    /\ phase = "running"
    /\ serviceVIPToName = [k \in ServiceVIPKeys |-> NoName]
    /\ ucWaiting = {}
    /\ recorded = <<>>
    /\ svcOps = 0
    /\ nEvents = 0
    /\ ucLast = NoUcCall
    /\ calls = {}

RegistryInit == IscOff /\ UcRunning

RegistryNext ==
    \/ \E s \in Services, svc \in UcObjects, ann \in Annotations : UcOnServiceAdd(s, svc, ann)
    \/ \E s \in Services, svc \in UcObjects, ann \in Annotations : UcOnServiceUpdate(s, svc, ann)
    \/ \E s \in Services : UcOnServiceDelete(s)

SpecRegistry == RegistryInit /\ [][RegistryNext]_vars

(***************************************************************************)
(* The Service handlers of the unidlingController when a callback may      *)
(* start before the one before it has returned.  The registry is locked    *)
(* for one AddServiceVIPToName or DeleteServiceVIPToName at a time; here   *)
(* onServiceDelete(old) and onServiceAdd(new) are each taken as one step   *)
(* (the schedules in which no other callback runs inside them), and the    *)
(* UpdateFunc is the two steps one after the other.                        *)
(***************************************************************************)
NoAnnotations == [idledAt |-> FALSE, status |-> NoStatus]

\* the Services notified in the runs with concurrent callbacks: one TCP
\* port, on either cluster IP
ConcObjects ==
    {o \in UcObjects : /\ o.type = "ClusterIP"
                       /\ o.clusterIP \in IPs
                       /\ o.ports = {<<80, ProtocolTCP>>}}

\* a callback that has been called with (old, new) and is at pc
Callback(op, s, old, new, pc) ==
    [n |-> svcOps + 1, op |-> op, svc |-> s, old |-> old, new |-> new, pc |-> pc]

\* the informer calls a handler: view is what has been notified so far
Notify(c) ==
    /\ phase = "running"
    /\ svcOps < MaxSvcOps
    /\ calls' = calls \cup {c}
    /\ view' = [view EXCEPT ![c.svc] = c.new]
    /\ svcOps' = svcOps + 1
    /\ ucLast' = NoUcCall
    /\ UNCHANGED <<sbStore, liveQ, listQ, phase, serviceVIPToName, ucWaiting, recorded,
                   nEvents>>
    /\ UNCHANGED <<iscVars, last, runVars>>

NotifyAdd(s, svc) ==
    /\ ~view[s].present
    /\ IPFree(s, svc)
    /\ Notify(Callback("add", s, NoUcSvc, svc, "add"))

NotifyUpdate(s, svc) ==
    /\ view[s].present
    /\ IPFree(s, svc)
    /\ Notify(Callback("update", s, view[s], svc, "delete"))

NotifyDelete(s) ==
    /\ view[s].present
    /\ Notify(Callback("delete", s, view[s], NoUcSvc, "delete"))

\* a started callback runs uc.onServiceDelete(old): the last step of the
\* DeleteFunc, the first of the UpdateFunc
CallbackDelete(c) ==
    /\ c \in calls
    /\ c.pc = "delete"
    /\ serviceVIPToName' = RegistryAfterDelete(serviceVIPToName, c.old)
    /\ calls' = IF c.op = "update" THEN (calls \ {c}) \cup {[c EXCEPT !.pc = "add"]}
                                   ELSE calls \ {c}
    /\ ucLast' = UcCall(IF c.op = "update" THEN "none" ELSE "delete", c.svc)
    /\ UNCHANGED <<view, sbStore, liveQ, listQ, phase, ucWaiting, recorded, svcOps,
                   nEvents>>
    /\ UNCHANGED <<iscVars, last, runVars>>

\* a started callback runs uc.onServiceAdd(new): the AddFunc, and the last
\* step of the UpdateFunc
CallbackAdd(c) ==
    /\ c \in calls
    /\ c.pc = "add"
    /\ serviceVIPToName' = RegistryAfterAdd(serviceVIPToName, c.svc, c.new)
    /\ AfterAlign(c.svc, NoAnnotations)
    /\ calls' = calls \ {c}
    /\ ucLast' = UcCall(c.op, c.svc)
    /\ UNCHANGED <<view, sbStore, liveQ, listQ, phase, recorded, svcOps, nEvents>>
    /\ UNCHANGED <<iscVars, last, runVars>>

ConcInit == RegistryInit

ConcNext ==
    \/ \E s \in Services, svc \in ConcObjects : NotifyAdd(s, svc)
    \/ \E s \in Services, svc \in ConcObjects : NotifyUpdate(s, svc)
    \/ \E s \in Services : NotifyDelete(s)
    \/ \E c \in calls : CallbackDelete(c)
    \/ \E c \in calls : CallbackAdd(c)

SpecConc == ConcInit /\ [][ConcNext]_vars

\* the Services notified in the runs of the event bridge
BridgeObjects ==
    {o \in UcObjects : /\ o.type = "ClusterIP"
                       /\ \/ o.clusterIP = "10.0.0.5" /\ <<80, ProtocolUDP>> \in o.ports
                          \/ o.clusterIP = "None" /\ o.ports = SvcPorts}
BridgeService == [namespace |-> "ns", name |-> "a"]

\* the state when NewController is entered
BridgeInit ==
    /\ IscOff
    /\ view = [s \in Services |-> NoUcSvc]
    /\ sbStore = {}
    /\ liveQ = <<>>
    /\ listQ = <<>>
    /\ phase = "new"
    /\ serviceVIPToName = [k \in ServiceVIPKeys |-> NoName]
    /\ ucWaiting = {}
    /\ recorded = <<>>
    /\ svcOps = 0
    /\ nEvents = 0
    /\ ucLast = NoUcCall
    /\ calls = {}

BridgeNext ==
    \/ \E type \in EventTypes, vip \in EventVips, proto \in EventProtos :
           SbInsert(type, vip, proto)
    \/ RegisterSbHandler
    \/ \E ok \in BOOLEAN : ListEvents(ok)
    \/ \E fromList \in BOOLEAN, txOk \in BOOLEAN : RunEvent(fromList, txOk)
    \/ \E svc \in BridgeObjects : UcOnServiceAdd(BridgeService, svc, NoAnnotations)
    \/ UcOnServiceDelete(BridgeService)

SpecBridge == BridgeInit /\ [][BridgeNext]_vars

(***************************************************************************)
(* The outside world: Services are created, get or lose the idled-at       *)
(* annotation, and are deleted.                                            *)
(***************************************************************************)
EnvCreate(s, obj) ==
    /\ envOps < EnvLimit
    /\ api[s] = NoSvc
    /\ api' = [api EXCEPT ![s] = obj]
    /\ watchQ' = Append(watchQ, [type |-> "ADDED", svc |-> s, obj |-> obj])
    /\ envOps' = envOps + 1
    /\ last' = NoCall
    /\ DupStale
    /\ UNCHANGED <<ucVars, runVars>>
    /\ UNCHANGED <<cache, notifQ, gracePeriod, waiting, timers, queue, dirty, processing, worker>>

EnvSetIdledAt(s, b) ==
    /\ envOps < EnvLimit
    /\ api[s] # NoSvc
    /\ api[s].idledAt # b
    /\ api' = [api EXCEPT ![s].idledAt = b]
    /\ watchQ' = Append(watchQ, [type |-> "MODIFIED", svc |-> s,
                                 obj |-> [api[s] EXCEPT !.idledAt = b]])
    /\ envOps' = envOps + 1
    /\ last' = NoCall
    /\ DupStale
    /\ UNCHANGED <<ucVars, runVars>>
    /\ UNCHANGED <<cache, notifQ, gracePeriod, waiting, timers, queue, dirty, processing, worker>>

EnvDelete(s) ==
    /\ envOps < EnvLimit
    /\ api[s] # NoSvc
    /\ api' = [api EXCEPT ![s] = NoSvc]
    /\ watchQ' = Append(watchQ, [type |-> "DELETED", svc |-> s, obj |-> api[s]])
    /\ envOps' = envOps + 1
    /\ last' = NoCall
    /\ DupStale
    /\ UNCHANGED <<ucVars, runVars>>
    /\ UNCHANGED <<cache, notifQ, gracePeriod, waiting, timers, queue, dirty, processing, worker>>

(***************************************************************************)
(* The shared informer: applies one watch event to its store and queues    *)
(* the notification for the registered handlers (AddFunc and UpdateFunc;   *)
(* NewIdleStatusController registers no DeleteFunc).                       *)
(***************************************************************************)
InformerDeliver ==
    /\ watchQ # <<>>
    /\ LET e == Head(watchQ) IN
        /\ cache' = [cache EXCEPT ![e.svc] = IF e.type = "DELETED" THEN NoSvc ELSE e.obj]
        /\ notifQ' =
              IF e.type = "ADDED"
              THEN Append(notifQ, [kind |-> "add", svc |-> e.svc, old |-> e.obj, new |-> e.obj])
              ELSE IF e.type = "MODIFIED"
              THEN Append(notifQ, [kind |-> "update", svc |-> e.svc,
                                   old |-> cache[e.svc], new |-> e.obj])
              ELSE notifQ
    /\ watchQ' = Tail(watchQ)
    /\ last' = NoCall
    /\ DupStale
    /\ UNCHANGED <<ucVars, runVars>>
    /\ UNCHANGED <<api, gracePeriod, waiting, timers, queue, dirty, processing, worker, envOps>>

\* AddFunc: isc.onServiceAdd
HandleAdd ==
    /\ notifQ # <<>>
    /\ Head(notifQ).kind = "add"
    /\ LET n == Head(notifQ) IN
        Apply(n.svc, onServiceAdd(n.new), "add", FALSE, hasIdleAt(n.new), n.new.status, TRUE)
    /\ notifQ' = Tail(notifQ)
    /\ DupStale
    /\ UNCHANGED <<ucVars, runVars>>
    /\ UNCHANGED <<cache, gracePeriod, queue, dirty, processing, worker, envOps>>

\* UpdateFunc: isc.onServiceUpdate
HandleUpdate ==
    /\ notifQ # <<>>
    /\ Head(notifQ).kind = "update"
    /\ LET n == Head(notifQ) IN
        Apply(n.svc, onServiceUpdate(n.old, n.new), "update",
              hasIdleAt(n.old), hasIdleAt(n.new), n.new.status, TRUE)
    /\ notifQ' = Tail(notifQ)
    /\ dup' = IF dup.on THEN [on |-> TRUE, n |-> Head(notifQ), fresh |-> TRUE,
                               before |-> NoStatus]
                         ELSE dup
    /\ UNCHANGED <<ucVars, runVars>>
    /\ UNCHANGED <<cache, gracePeriod, queue, dirty, processing, worker, envOps>>

\* UpdateFunc once more, with the notification it was given last: the same
\* (old, new) pair, whatever the cluster has become since. dup.fresh tells
\* whether this is the very next step after the first delivery, dup.before
\* is the status the API server stored before this delivery.
RedeliverUpdate ==
    /\ dup.on
    /\ dup.n.kind = "update"
    /\ LET n == dup.n IN
        /\ Apply(n.svc, onServiceUpdate(n.old, n.new), "redo",
                 hasIdleAt(n.old), hasIdleAt(n.new), n.new.status, TRUE)
        /\ dup' = [dup EXCEPT !.n = NoNotif, !.before = api[n.svc].status]
    /\ UNCHANGED <<ucVars, runVars>>
    /\ UNCHANGED <<cache, notifQ, gracePeriod, queue, dirty, processing, worker, envOps>>

\* the delaying queue's timer for key fires: the key is added to the queue
TimerExpire(key) ==
    /\ waiting[key] # NoTimer
    /\ waiting' = [waiting EXCEPT ![key] = NoTimer]
    /\ timers' = [timers EXCEPT ![key] = @ - 1]
    /\ queue' = QueueAfterAdd(key)
    /\ dirty' = DirtyAfterAdd(key)
    /\ last' = NoCall
    /\ DupStale
    /\ UNCHANGED <<ucVars, runVars>>
    /\ UNCHANGED <<api, watchQ, cache, notifQ, gracePeriod, processing, worker, envOps>>

\* mutant: a NotFound from the lister is returned as an error
syncKey_NotFoundIsError(service) ==
    IF service = NoSvc THEN Failed ELSE markServiceAsNotIdle(service)

\* the function literal of processNextWorkItem, from the lister's answer on:
\* a Service that is not found was deleted during the grace period and is
\* no error
syncKey(service) ==
    IF service = NoSvc THEN Nothing ELSE markServiceAsNotIdle(service)

\* the value processNextWorkItem returns: false only when Get reports the
\* queue shut down, whatever the sync function returned
loopContinues(shutdown, err) == ~shutdown

\* isc.processNextWorkItem: Get, then the sync function on the key; the key
\* is never marked Done.  Get waits until the queue holds a key or is shut
\* down; it reports the shutdown once the queue is empty.
processNextWorkItem ==
    /\ worker = "running"
    /\ queue # <<>> \/ iscRun = "returned"
    /\ IF queue = <<>>
       THEN /\ worker' = IF loopContinues(TRUE, FALSE) THEN "running" ELSE "exited"
            /\ last' = NoCall
            /\ UNCHANGED <<api, watchQ, waiting, timers, queue, dirty, processing>>
       ELSE LET key     == Head(queue)
                s       == SplitMetaNamespaceKey(key)
                service == cache[s]
            IN  /\ queue' = Tail(queue)
                /\ processing' = processing \cup {key}
                /\ dirty' = dirty \ {key}
                /\ Apply(s, syncKey(service), "expiry", FALSE, hasIdleAt(service),
                         service.status, service # NoSvc)
                /\ worker' = IF loopContinues(FALSE, last'.err) THEN "running" ELSE "exited"
    /\ DupStale
    /\ UNCHANGED <<ucVars, runVars>>
    /\ UNCHANGED <<cache, notifQ, gracePeriod, envOps>>

\* the watch events of the informer's initial list: one ADDED per Service
\* that exists when the controller starts
RECURSIVE InitialList(_, _)
InitialList(objs, todo) ==
    IF todo = {} THEN <<>>
    ELSE LET s == CHOOSE x \in todo : TRUE
             rest == InitialList(objs, todo \ {s})
         IN  IF objs[s] = NoSvc THEN rest
             ELSE <<[type |-> "ADDED", svc |-> s, obj |-> objs[s]]>> \o rest

\* the state after NewIdleStatusController: the cluster holds any Services,
\* the informer has seen none of them yet, and the queue is empty
IscFresh(clusters) ==
    /\ api \in clusters
    /\ watchQ = InitialList(api, Services)
    /\ cache = [s \in Services |-> NoSvc]
    /\ notifQ = <<>>
    /\ gracePeriod \in GracePeriods
    /\ waiting = [k \in Keys |-> NoTimer]
    /\ timers = [k \in Keys |-> 0]
    /\ queue = <<>>
    /\ dirty = {}
    /\ processing = {}
    /\ envOps = 0
    /\ last = NoCall

\* the same with Run called and its worker waiting in Get
IscStart(clusters) ==
    /\ IscFresh(clusters)
    /\ worker = "running"
    /\ stopCh = "open"
    /\ iscRun = "loop"

IscInit == IscStart([Services -> Objects \cup {NoSvc}]) /\ dup = DupOff

Init == IscInit /\ UcOff

Next ==
    \/ \E s \in Services, obj \in Objects : EnvCreate(s, obj)
    \/ \E s \in Services, b \in BOOLEAN : EnvSetIdledAt(s, b)
    \/ \E s \in Services : EnvDelete(s)
    \/ InformerDeliver
    \/ HandleAdd
    \/ HandleUpdate
    \/ \E key \in Keys : TimerExpire(key)
    \/ processNextWorkItem

Spec == Init /\ [][Next]_vars

(***************************************************************************)
(* The idleStatusController with one Service, where the update handler may *)
(* be given a notification a second time.                                  *)
(***************************************************************************)
DupService == [namespace |-> "ns", name |-> "a"]

DupInit ==
    /\ IscStart({c \in [Services -> Objects \cup {NoSvc}] :
                     \A s \in Services \ {DupService} : c[s] = NoSvc})
    /\ dup = DupOn
    /\ UcOff

DupNext ==
    \/ \E obj \in Objects : EnvCreate(DupService, obj)
    \/ \E b \in BOOLEAN : EnvSetIdledAt(DupService, b)
    \/ EnvDelete(DupService)
    \/ InformerDeliver
    \/ HandleAdd
    \/ HandleUpdate
    \/ RedeliverUpdate
    \/ \E key \in Keys : TimerExpire(key)
    \/ processNextWorkItem

SpecDup == DupInit /\ [][DupNext]_vars

(***************************************************************************)
(* The idleStatusController with one Service, each notification delivered  *)
(* once: long enough for idling to end, come back and end again.           *)
(***************************************************************************)
CycleNext ==
    \/ \E obj \in Objects : EnvCreate(DupService, obj)
    \/ \E b \in BOOLEAN : EnvSetIdledAt(DupService, b)
    \/ EnvDelete(DupService)
    \/ InformerDeliver
    \/ HandleAdd
    \/ HandleUpdate
    \/ \E key \in Keys : TimerExpire(key)
    \/ processNextWorkItem

SpecCycle == DupInit /\ [][CycleNext]_vars

(***************************************************************************)
(* Shutdown: both controllers with their Run loops and the stop channel.   *)
(* One Service, and empty_lb_backends rows for one vip.                    *)
(***************************************************************************)
\* close(stopCh)
Stop ==
    /\ stopCh = "open"
    /\ stopCh' = "closed"
    /\ last' = NoCall
    /\ ucLast' = NoUcCall
    /\ DupStale
    /\ UNCHANGED <<api, watchQ, cache, notifQ, gracePeriod, waiting, timers, queue, dirty,
                   processing, worker, envOps, iscRun>>
    /\ UNCHANGED <<view, sbStore, liveQ, listQ, phase, serviceVIPToName, ucWaiting,
                   recorded, svcOps, nEvents, calls>>

\* isc.Run: wait.Until(isc.worker, time.Second, stopCh) while isc.worker is
\* not running: with stopCh closed it returns and Run shuts the queue down,
\* otherwise it calls isc.worker (again)
IscRunUntil ==
    /\ iscRun = "loop"
    /\ worker = "exited"
    /\ iscRun' = IF stopCh = "closed" THEN "returned" ELSE iscRun
    /\ worker' = IF stopCh = "closed" THEN worker ELSE "running"
    /\ last' = NoCall
    /\ ucLast' = NoUcCall
    /\ DupStale
    /\ UNCHANGED <<api, watchQ, cache, notifQ, gracePeriod, waiting, timers, queue, dirty,
                   processing, envOps, stopCh>>
    /\ UNCHANGED <<view, sbStore, liveQ, listQ, phase, serviceVIPToName, ucWaiting,
                   recorded, svcOps, nEvents, calls>>

\* uc.Run: the select takes the stopCh case and Run returns
UcRunStop ==
    /\ phase = "running"
    /\ stopCh = "closed"
    /\ phase' = "stopped"
    /\ ucLast' = NoUcCall
    /\ UNCHANGED <<view, sbStore, liveQ, listQ, serviceVIPToName, ucWaiting, recorded,
                   svcOps, nEvents, calls>>
    /\ UNCHANGED <<iscVars, last, runVars>>

StopVip == <<"10.0.0.5", ":", 80>>

\* NewController and NewIdleStatusController have returned; neither Run has
\* run yet
StopInit ==
    /\ IscFresh({c \in [Services -> Objects \cup {NoSvc}] :
                     \A s \in Services \ {DupService} : c[s] = NoSvc})
    /\ worker = "exited"
    /\ dup = DupOff
    /\ stopCh = "open"
    /\ iscRun = "loop"
    /\ UcRunning

\* the steps of the two controllers
StopControllers ==
    \/ InformerDeliver
    \/ HandleAdd
    \/ HandleUpdate
    \/ \E key \in Keys : TimerExpire(key)
    \/ processNextWorkItem
    \/ IscRunUntil
    \/ \E txOk \in BOOLEAN : RunEvent(FALSE, txOk)
    \/ UcRunStop

\* the steps of everything around them
StopOutside ==
    \/ \E obj \in Objects : EnvCreate(DupService, obj)
    \/ \E b \in BOOLEAN : EnvSetIdledAt(DupService, b)
    \/ EnvDelete(DupService)
    \/ SbInsert(EmptyLbBackends, StopVip, "udp")
    \/ Stop

StopNext == StopControllers \/ StopOutside

SpecStop == StopInit /\ [][StopNext]_vars

(***************************************************************************)
(* Properties of the VIP registry (specification SpecRegistry) and of the  *)
(* event bridge (specification SpecBridge).                                *)
(***************************************************************************)
\* a Service has a set cluster address
HasSetClusterAddress(svc) ==
    svc.present /\ svc.type # "ExternalName" /\ svc.clusterIP \in IPs

\* the (vip, protocol) key k is derivable from the spec of svc
Derivable(k, svc) ==
    /\ HasSetClusterAddress(svc)
    /\ \E sp \in svc.ports : k.vip = <<svc.clusterIP, ":", sp[1]>> /\ k.protocol = sp[2]

\* C1: after each add, update or delete notification the registry holds
\* exactly the (vip, protocol) -> workload entries derivable from the latest
\* spec of each Service that still exists and has a set cluster address.
C1_RegistryIsExact ==
    \A k \in ServiceVIPKeys :
        /\ \A s \in Services : Derivable(k, view[s]) => serviceVIPToName[k] = s
        /\ serviceVIPToName[k] # NoName =>
              /\ serviceVIPToName[k] \in Services
              /\ Derivable(k, view[serviceVIPToName[k]])

\* an update took entries of the Service away and put others in, next to
\* the entries of another Service
C1_Witness ==
    /\ ucLast.op = "update"
    /\ svcOps = MaxSvcOps
    /\ \E k \in ServiceVIPKeys : serviceVIPToName[k] = ucLast.svc
    /\ \E k \in ServiceVIPKeys : serviceVIPToName[k] \in Services \ {ucLast.svc}
    /\ \E k \in ServiceVIPKeys : serviceVIPToName[k] = NoName /\ k.vip[1] = view[ucLast.svc].clusterIP

\* the registry key handleLbEmptyBackendsEvent looks up for a row
EventKey(ev) == ServiceVIPKey(ev.vip, protocolOf(ev.protocol))
EventHit(ev) == EventKey(ev) \in ServiceVIPKeys /\ serviceVIPToName[EventKey(ev)] # NoName

\* C2: a handled event is deleted from the store first (nothing is recorded
\* unless its delete transaction went through); then, the registry mapping
\* its (vip, protocol) to a workload, exactly one NeedPods event referring to
\* that workload is recorded; the registry having no entry, the row is
\* deleted all the same and nothing is recorded.
C2_EventIsDeletedThenSignalled ==
    ucLast.op = "event" =>
        IF ucLast.txOk
        THEN /\ \A x \in sbStore : x.uuid # ucLast.ev.uuid
             /\ IF EventHit(ucLast.ev)
                THEN /\ ucLast.nSignals = 1
                     /\ recorded # <<>>
                     /\ recorded[Len(recorded)].reason = "NeedPods"
                     /\ recorded[Len(recorded)].ref = serviceVIPToName[EventKey(ucLast.ev)]
                ELSE ucLast.nSignals = 0
        ELSE ucLast.nSignals = 0

C2_Witness ==
    /\ ucLast.op = "event" /\ ucLast.txOk
    /\ ucLast.ev.protocol = "udp"
    /\ EventHit(ucLast.ev)
    /\ recorded = <<NeedPods(BridgeService)>>
    /\ sbStore = {}

(***************************************************************************)
(* Properties of the idle-status state machine (specification Spec).       *)
(* `last` describes the handler invocation that produced the state.        *)
(***************************************************************************)
LastKey == MetaNamespaceKeyFunc(last.svc)
IsUpdate(old, new) == last.op = "update" /\ last.old = old /\ last.new = new

\* C3: an update whose idled-at marker goes from true to false while the
\* object's status is Idle writes GracePeriod and, the write accepted, leaves
\* the stored status GracePeriod and a timer for namespace/name waiting for
\* the configured grace period.
C3_UnidleStartsGracePeriod ==
    (IsUpdate(TRUE, FALSE) /\ last.status = StatusIdle) =>
        /\ last.wrote = StatusGracePeriod
        /\ last.ok =>
              /\ api[last.svc].status = StatusGracePeriod
              /\ last.sched = gracePeriod
              /\ waiting[LastKey] = gracePeriod

C3_Witness ==
    /\ IsUpdate(TRUE, FALSE) /\ last.status = StatusIdle
    /\ last.ok
    /\ waiting[LastKey] = gracePeriod
    /\ api[last.svc].status = StatusGracePeriod

\* C4: an update whose marker goes from true to false while the object's
\* status is GracePeriod or NotIdle writes no annotation and schedules no
\* timer.
C4_UnidleElsewhereIsNoOp ==
    (IsUpdate(TRUE, FALSE) /\ last.status \in {StatusGracePeriod, StatusNotIdle}) =>
        /\ last.wrote = NoWrite
        /\ last.sched = NoTimer

\* C5: a Service observed with the marker true (on add, or on update from
\* either prior marker value) has Idle written iff the object's status is
\* not Idle; nothing else is written and no timer is scheduled.
C5_IdledIsMarkedIdle ==
    (last.op \in {"add", "update"} /\ last.new) =>
        /\ (last.wrote = StatusIdle) <=> (last.status # StatusIdle)
        /\ last.wrote \in {StatusIdle, NoWrite}
        /\ last.ok => api[last.svc].status = StatusIdle
        /\ last.sched = NoTimer

C5_Witness ==
    /\ IsUpdate(FALSE, TRUE)
    /\ last.status = StatusNotIdle
    /\ last.wrote = StatusIdle
    /\ last.ok
    /\ api[last.svc].status = StatusIdle

\* C6: a Service observed on add without the marker, or on update with the
\* marker false before and after, has no annotation written and no timer
\* scheduled, whatever the object's status.
C6_NotIdledIsLeftAlone ==
    ((last.op = "add" /\ ~last.new) \/ IsUpdate(FALSE, FALSE)) =>
        /\ last.wrote = NoWrite
        /\ last.sched = NoTimer
        /\ ~last.err

C6_Witness ==
    /\ last.op = "add" /\ ~last.new
    /\ last.status = StatusGracePeriod

\* C7: an expiry that finds the Service without the marker and with status
\* GracePeriod writes NotIdle, which the accepted write leaves stored.
C7_ExpiryMarksNotIdle ==
    (last.op = "expiry" /\ last.found /\ ~last.new /\ last.status = StatusGracePeriod) =>
        /\ last.wrote = StatusNotIdle
        /\ last.ok => api[last.svc].status = StatusNotIdle

C7_Witness ==
    /\ last.op = "expiry" /\ last.found /\ ~last.new
    /\ last.status = StatusGracePeriod
    /\ last.ok
    /\ api[last.svc].status = StatusNotIdle

\* C8: an expiry that finds the Service carrying the marker writes no
\* annotation, whatever the object's status.
C8_ExpiryOfReidledWritesNothing ==
    (last.op = "expiry" /\ last.found /\ last.new) => last.wrote = NoWrite

\* C9: an expiry for a Service the lister does not find writes nothing,
\* reports no error, and leaves the worker loop running, ready to take the
\* next key.
C9_ExpiryOfDeletedIsDropped ==
    (last.op = "expiry" /\ ~last.found) =>
        /\ last.wrote = NoWrite
        /\ ~last.err
        /\ worker = "running"
        /\ queue # <<>> => ENABLED processNextWorkItem

C9_Witness ==
    /\ last.op = "expiry" /\ ~last.found
    /\ api[last.svc] = NoSvc
    /\ worker = "running"

\* nothing is pending: no watch event, no notification, no timer, no key
Quiescent ==
    /\ watchQ = <<>>
    /\ notifQ = <<>>
    /\ queue = <<>>
    /\ \A k \in Keys : waiting[k] = NoTimer

\* C10 (first half): once everything pending is processed, a Service that
\* carries the marker has status Idle.
C10_IdleOnceQuiet ==
    Quiescent => \A s \in Services : hasIdleAt(api[s]) => api[s].status = StatusIdle

\* C10 (second half): an expiry never leaves NotIdle on a Service it read
\* with the marker set.
C10_ExpiryNeverUnidlesIdled ==
    ~(last.op = "expiry" /\ last.new /\ last.wrote = StatusNotIdle /\ last.ok)

\* C10: idle, un-idle, idle again before the grace period ends: the status is
\* Idle once all pending events and timers are processed, and the expiry
\* never leaves the Service at NotIdle while its marker is true.  (An expiry
\* that reads the marker set is an expiry of this round trip: its timer was
\* scheduled by an update that took the marker away, and the marker is back.)
C10_RoundTrip == C10_IdleOnceQuiet /\ C10_ExpiryNeverUnidlesIdled

(***************************************************************************)
(* Repeated deliveries (specification SpecDup).                            *)
(***************************************************************************)
\* the step was a second delivery of an update notification
Redelivered == last.op = "redo"

\* the second delivery left the stored status of its Service as it found it
StatusKept == api[last.svc].present => api[last.svc].status = dup.before

\* a grace-period expiry that finds the status past GracePeriod (Idle or
\* NotIdle) writes nothing
LateExpiryWritesNothing ==
    (last.op = "expiry" /\ last.found /\ last.status \in {StatusIdle, StatusNotIdle})
        => last.wrote = NoWrite

ToLower(proto) ==
    IF proto = "UDP" THEN "udp" ELSE IF proto = "SCTP" THEN "sctp" ELSE proto

\* the protocol of a lookup that reads the field in any letter case
AnyCaseProtocol(proto) ==
    IF ToLower(proto) = "udp" THEN ProtocolUDP
    ELSE IF ToLower(proto) = "sctp" THEN ProtocolSCTP
    ELSE ProtocolTCP

AnyCaseKey(ev) == ServiceVIPKey(ev.vip, AnyCaseProtocol(ev.protocol))

\* C12: the registry is looked up with UDP when the row's protocol field is
\* "udp" in any letter case, SCTP when it is "sctp" in any letter case, and
\* TCP when the field is missing or anything else: a handled row with a vip
\* is signalled exactly when the registry has an entry under that key
C12_ProtocolInAnyLetterCase ==
    (ucLast.op = "event" /\ ucLast.txOk /\ ucLast.ev.vip # NoVip) =>
        IF AnyCaseKey(ucLast.ev) \in ServiceVIPKeys
               /\ serviceVIPToName[AnyCaseKey(ucLast.ev)] # NoName
        THEN /\ ucLast.nSignals = 1
             /\ recorded[Len(recorded)].ref = serviceVIPToName[AnyCaseKey(ucLast.ev)]
        ELSE ucLast.nSignals = 0

\* the same for the fields in lower case, missing, or unknown: this holds
C12_ProtocolInLowerCase ==
    (ucLast.op = "event" /\ ucLast.ev.protocol = ToLower(ucLast.ev.protocol))
        => EventKey(ucLast.ev) = AnyCaseKey(ucLast.ev)

\* C13: a row is consumed once: there are never more signals than rows,
\* and a row handled again after it was deleted (it was in the startup list
\* and also came through the live subscription) gives no error and no
\* second signal
C13_DuplicateIsTolerated ==
    /\ Len(recorded) <= nEvents
    /\ (ucLast.op = "event" /\ ucLast.gone /\ ucLast.txOk) =>
            ~ucLast.err /\ ucLast.nSignals = 0

\* the part about the error alone: this holds
C13_DuplicateIsNoError ==
    (ucLast.op = "event" /\ ucLast.gone /\ ucLast.txOk) => ~ucLast.err

\* C14: a row whose delete transaction fails is dropped: the step returns
\* the error, records nothing, leaves the store as it is, takes the row off
\* the queue it came from and puts it on none, and the loop of Run goes on
C14_FailedDeleteDropsEvent ==
    [][(ucLast'.op = "event" /\ ~ucLast'.txOk) =>
            /\ ucLast'.err
            /\ ucLast'.nSignals = 0
            /\ recorded' = recorded
            /\ sbStore' = sbStore
            /\ Len(listQ') + Len(liveQ') = Len(listQ) + Len(liveQ) - 1
            /\ phase' = "running"]_vars

\* a delete failed for a row the registry has an owner for, while a further
\* item waits for the loop
C14_Witness ==
    /\ ucLast.op = "event" /\ ~ucLast.txOk /\ ucLast.err
    /\ EventHit(ucLast.ev)
    /\ recorded = <<>>
    /\ liveQ # <<>>
    /\ phase = "running"
    /\ ENABLED RunEvent(FALSE, TRUE)

\* C15: a row without a vip is deleted like any other (its delete
\* transaction succeeding) and nothing is recorded for it
C15_NoVipIsAcknowledged ==
    (ucLast.op = "event" /\ ucLast.txOk /\ ucLast.ev.vip = NoVip) =>
        /\ \A x \in sbStore : x.uuid # ucLast.ev.uuid
        /\ ucLast.nSignals = 0
        /\ ~ucLast.err

\* a row without a vip was in the store, was handled and is gone, while the
\* registry has entries
C15_Witness ==
    /\ ucLast.op = "event" /\ ucLast.txOk /\ ucLast.ev.vip = NoVip
    /\ ~ucLast.gone
    /\ sbStore = {}
    /\ recorded = <<>>
    /\ \E k \in ServiceVIPKeys : serviceVIPToName[k] # NoName

\* C20: only empty_lb_backends rows are handled: a row of another type,
\* whether it is inserted while the handler is registered or is in the store
\* at the startup List, is never deleted and never signalled
C20_OnlyEmptyLbBackendsHandled ==
    (ucLast.op = "event" /\ ucLast.ev.type # EmptyLbBackends) =>
        /\ ucLast.gone \/ \E x \in sbStore : x.uuid = ucLast.ev.uuid
        /\ ucLast.nSignals = 0

\* the part about the live subscription alone: this holds
C20_LiveIsFiltered ==
    \A i \in 1..Len(liveQ) : liveQ[i].type = EmptyLbBackends

(***************************************************************************)
(* Timers of the grace period (specification SpecDup).                     *)
(***************************************************************************)
\* how often key stands in the work queue
InQueue(key) == Cardinality({i \in 1..Len(queue) : queue[i] = key})

C17_NoStaleEntryOnceQuiet ==
    calls = {} =>
        \A k \in ServiceVIPKeys :
            serviceVIPToName[k] # NoName =>
                /\ serviceVIPToName[k] \in Services
                /\ Derivable(k, view[serviceVIPToName[k]])

(***************************************************************************)
(* The end of the grace period (specification SpecCycle).                  *)
(***************************************************************************)
\* the grace timer of s has fired (its key was added to the work queue) and
\* no expiry has been handled for it since
ExpiredUnhandled(s) == MetaNamespaceKeyFunc(s) \in dirty

\* C19: a Service set to GracePeriod, still there and still without the
\* marker, gets to NotIdle once its timer has fired and the worker has
\* nothing left to take, in the first cycle and in every later one: with
\* nothing pending any more, no such Service is left at GracePeriod
C19_GracePeriodEnds ==
    (Quiescent /\ worker = "running") =>
        \A s \in Services :
            (ExpiredUnhandled(s) /\ api[s].present /\ ~hasIdleAt(api[s]))
                => api[s].status # StatusGracePeriod

(***************************************************************************)
(* Shutdown (specification SpecStop).                                      *)
(***************************************************************************)
\* uc.Run, isc.worker and isc.Run have returned
UcRunExited == phase = "stopped"
IscRunExited == worker = "exited" /\ iscRun = "returned"

\* C16: after the stop channel is closed every run loop exits without a
\* further queue item: stated for the states in which stopCh is closed and
\* no step of either controller is possible any more, where uc.Run,
\* isc.worker and isc.Run must all have returned
C16_LoopsExitAfterStop ==
    (stopCh = "closed" /\ ~ENABLED StopControllers) => UcRunExited /\ IscRunExited

\* the part about uc.Run alone: this holds
C16_UcRunExitsAfterStop ==
    (stopCh = "closed" /\ ~ENABLED StopControllers) => UcRunExited

====
